---- MODULE Spec2Model ----
(***************************************************************************)
(* Experiment-notebook API over a property-graph store.                    *)
(*                                                                         *)
(* Two deployments of the API are modelled over the same kind of store:    *)
(*   impl = "main"   : src/main.py (create_note of src/main_gemini.py is   *)
(*                     statement-for-statement the same)                   *)
(*   impl = "router" : src/routers/notes.py with src/models.py             *)
(*                                                                         *)
(* The store is a set of nodes (internal id, label, property map) and a    *)
(* set of typed directed relationships.  A write handler runs a sequence   *)
(* of statements on a transaction's working copy; the store may raise at   *)
(* any statement, and the handler's except branch then decides what the    *)
(* committed store becomes.  Reads (get, listing, search) are functions of  *)
(* the committed store; the listing of src/main_gemini.py is evaluated     *)
(* over the stores of impl = "main".                                       *)
(*                                                                         *)
(* Spec serves one request at a time.  SpecConcurrent interleaves the      *)
(* statements of create_note calls that run at the same time.              *)
(***************************************************************************)
EXTENDS Integers, Sequences, FiniteSets, TLC

VARIABLES impl, workload, db, uuids, nops, last, txs

vars == <<impl, workload, db, uuids, nops, last, txs>>

(***************************************************************************)
(* Bounds of the model.                                                    *)
(***************************************************************************)
\* write requests (create, update, delete) issued in one behaviour
MaxOps == 3

\* create requests served at the same time by the worker threads
Clients == 2

(***************************************************************************)
(* Generic helpers.                                                        *)
(***************************************************************************)
MaxOf(S) == CHOOSE x \in S : \A y \in S : y <= x

MinOf(S) == CHOOSE x \in S : \A y \in S : x <= y

Impls == {"main", "router"}

\* Python's None inside a property map handed to the store
NoneVal == "<None>"

\* the experiment id of a response that carries none
NoId == "<no id>"

\* uuid.uuid4(): the k-th identifier generated is a fresh one
UuidPool == <<"u1", "u2", "u3", "u4", "u5", "u6">>

EmptyStore == [nodes |-> {}, rels |-> {}]

(***************************************************************************)
(* Request data (pydantic models).                                         *)
(***************************************************************************)
Categories == {"Substances", "Processing", "Measurement", "Others"}

SubstanceKeys ==
  {"Node Name", "Node Type", "CAS RN", "SMILES", "Weight", "Volume", "Note"}

PlainKeys == {"Node Name", "Note"}

\* fields declared by the property model of a category
SchemaKeys(category) ==
  IF category = "Substances" THEN SubstanceKeys ELSE PlainKeys

\* date.isoformat(): YYYY-MM-DD, here as the sequence of its eight digits
IsoFormat(d) ==
  << d[1] \div 1000, (d[1] \div 100) % 10, (d[1] \div 10) % 10, d[1] % 10,
     d[2] \div 10, d[2] % 10, d[3] \div 10, d[3] % 10 >>

\* folder_path.split('/') with the empty parts removed.  A path string is
\* given as its sequence of tokens: the separator "/" or a maximal run of
\* other characters.
SplitPath(path) == SelectSeq(path, LAMBDA t : t # "/")

\* the property map without its None entries (None is "no such property")
DropNone(m) == [k \in {x \in DOMAIN m : m[x] # NoneVal} |-> m[k]]

\* Union[SubstanceProperties, ...] validation followed by
\* model_dump(by_alias=True).  The first member of the union accepts every
\* map that has "Node Name"; src/main.py ignores undeclared keys, the
\* models of src/models.py (extra='allow') keep them.
ModelDumpMain(raw) ==
  [k \in SubstanceKeys |-> IF k \in DOMAIN raw THEN raw[k] ELSE NoneVal]

ModelDumpRouter(raw) ==
  [k \in SubstanceKeys \cup DOMAIN raw |->
      IF k \in DOMAIN raw THEN raw[k] ELSE NoneVal]

\* a node model that accepts every category and every property map
ValidNodeAny(nd) == TRUE

\* NodeData / Node: category is a Literal of the four categories, and every
\* member of the properties union requires "Node Name"
ValidNode(nd) ==
  nd.category \in Categories /\ "Node Name" \in DOMAIN nd.properties

\* validation of the request body against FlowchartData / ExperimentCreate,
\* done by the framework before the handler is called
ValidBody(req) == \A i \in 1..Len(req.nodes) : ValidNode(req.nodes[i])

(***************************************************************************)
(* The property-graph store: pattern matching and the effect of one        *)
(* statement on a store value.                                             *)
(***************************************************************************)
\* (n:label {key: val})
NodesWith(s, label, key, val) ==
  {n \in s.nodes : n.label = label /\ key \in DOMAIN n.props /\ n.props[key] = val}

\* (n) WHERE n.id = id, whatever the label
NodesById(s, id) ==
  {n \in s.nodes : "id" \in DOMAIN n.props /\ n.props["id"] = id}

Nids(N) == {n.nid : n \in N}

\* the internal id the store gives to the next node it creates
Fresh(s) == IF s.nodes = {} THEN 1 ELSE 1 + MaxOf(Nids(s.nodes))

Rel(a, t, b) == [src |-> a, type |-> t, dst |-> b]

AddNode(s, label, props) ==
  [s EXCEPT !.nodes = @ \cup {[nid |-> Fresh(s), label |-> label, props |-> props]}]

\* MERGE of relationships between every pair of matched rows
AddRels(s, A, t, B) ==
  [s EXCEPT !.rels = @ \cup {Rel(a, t, b) : a \in A, b \in B}]

\* DETACH DELETE of the nodes with the internal ids in ids
DetachDelete(s, ids) ==
  [nodes |-> {n \in s.nodes : n.nid \notin ids},
   rels  |-> {r \in s.rels : r.src \notin ids /\ r.dst \notin ids}]

\* SET n += map: keys of map overwrite, a None value removes the property
SetPlus(old, map) ==
  LET gone == {k \in DOMAIN map : map[k] = NoneVal}
      keys == (DOMAIN old \cup DOMAIN map) \ gone
  IN  [k \in keys |-> IF k \in DOMAIN map THEN map[k] ELSE old[k]]

\* SET of single properties (no None among the values)
SetProps(old, map) ==
  [k \in DOMAIN old \cup DOMAIN map |-> IF k \in DOMAIN map THEN map[k] ELSE old[k]]

\* MERGE (p:Project {name: $name})
MergeProject(s, name) ==
  IF NodesWith(s, "Project", "name", name) # {} THEN s
  ELSE AddNode(s, "Project", [name |-> name])

\* MERGE (parent)-[:CONTAINS]->(f:Folder {name: $f_name}), once for each
\* parent row the MATCH clause produced
RECURSIVE MergeChildren(_, _, _)
MergeChildren(s, parents, fname) ==
  IF parents = {} THEN s
  ELSE LET p == MinOf(parents)
           has == \E f \in NodesWith(s, "Folder", "name", fname) :
                     Rel(p, "CONTAINS", f.nid) \in s.rels
           s2 == IF has THEN s
                 ELSE LET f == Fresh(s)
                      IN  [nodes |-> s.nodes \cup
                                     {[nid |-> f, label |-> "Folder",
                                       props |-> [name |-> fname]]},
                           rels  |-> s.rels \cup {Rel(p, "CONTAINS", f)}]
       IN  MergeChildren(s2, parents \ {p}, fname)

\* MATCH (parent:plabel) WHERE parent.name = $p_name  MERGE (parent)-[:CONTAINS]->(:Folder)
MergeFolder(s, plabel, pname, fname) ==
  MergeChildren(s, Nids(NodesWith(s, plabel, "name", pname)), fname)

\* MATCH (parent) WHERE parent.name = $p_name  MATCH (e:Experiment) WHERE e.id = $e_id
\* MERGE (parent)-[:CONTAINS]->(e)
LinkParent(s, plabel, pname, expId) ==
  AddRels(s, Nids(NodesWith(s, plabel, "name", pname)), "CONTAINS",
             Nids(NodesWith(s, "Experiment", "id", expId)))

\* MERGE (n:category {id: $id}) SET n += $properties
MergeFlowNode(s, category, id, map) ==
  LET M == NodesWith(s, category, "id", id)
  IN  IF M = {} THEN AddNode(s, category, SetPlus([id |-> id], map))
      ELSE [s EXCEPT !.nodes =
              {IF n \in M THEN [n EXCEPT !.props = SetPlus(@, map)] ELSE n : n \in @}]

\* MATCH (e:Experiment) WHERE e.id = $e_id  MATCH (n) WHERE n.id = $n_id
\* MERGE (e)-[:HAS_NODE]->(n)
LinkHasNode(s, expId, nodeId) ==
  AddRels(s, Nids(NodesWith(s, "Experiment", "id", expId)), "HAS_NODE",
             Nids(NodesById(s, nodeId)))

\* MATCH (a) WHERE a.id = $source_id  MATCH (b) WHERE b.id = $target_id
\* MERGE (a)-[r:type]->(b)
MergeEdge(s, source, target, type) ==
  AddRels(s, Nids(NodesById(s, source)), type, Nids(NodesById(s, target)))

\* MATCH (e:Experiment {id: $exp_id}) SET e.name = ..., e.registrant = ...,
\* e.registration_data = ...
SetExperimentMain(s, expId, map) ==
  LET M == NodesWith(s, "Experiment", "id", expId)
  IN  [s EXCEPT !.nodes =
         {IF n \in M THEN [n EXCEPT !.props = SetProps(@, map)] ELSE n : n \in @}]

\* the nodes joined to an experiment by a relationship of any type, in either
\* direction: the pattern (e)--(n), which also reaches the containing Folder
OwnedEitherWay(s, expId, relType) ==
  {n \in s.nodes : \E e \in NodesWith(s, "Experiment", "id", expId), r \in s.rels :
                      \/ r.src = e.nid /\ r.dst = n.nid
                      \/ r.dst = e.nid /\ r.src = n.nid}

\* the nodes an experiment reaches by one relationship of type relType
Owned(s, expId, relType) ==
  {n \in s.nodes : \E e \in NodesWith(s, "Experiment", "id", expId) :
                      Rel(e.nid, relType, n.nid) \in s.rels}

\* MATCH (e:Experiment {id: $exp_id})-[:relType]->(n) DETACH DELETE n
DeleteOwned(s, expId, relType) == DetachDelete(s, Nids(Owned(s, expId, relType)))

(***************************************************************************)
(* Transactions.  A transaction context holds the working copy of the      *)
(* store and env, the internal ids of the py2neo objects the handler has   *)
(* bound so far (used by src/routers/notes.py only).                       *)
(***************************************************************************)
\* tx.create of unbound nodes: each becomes a new node and is bound
RECURSIVE CreateNodes(_, _, _)
CreateNodes(c, items, i) ==
  IF i > Len(items) THEN c
  ELSE CreateNodes([s   |-> AddNode(c.s, items[i].label, items[i].props),
                    env |-> Append(c.env, Fresh(c.s))], items, i + 1)

\* tx.push(node): the bound node takes the local properties
PushNode(s, nid, map) ==
  [s EXCEPT !.nodes =
     {IF n.nid = nid THEN [n EXCEPT !.props = SetProps(@, map)] ELSE n : n \in @}]

\* one tx.run / tx.create / tx.push
Exec(c, st) ==
  CASE st.op = "MergeProject"     -> [c EXCEPT !.s = MergeProject(@, st.name)]
    [] st.op = "MergeFolder"      -> [c EXCEPT !.s = MergeFolder(@, st.plabel, st.pname, st.name)]
    [] st.op = "CreateExperiment" -> [c EXCEPT !.s = AddNode(@, "Experiment", st.props)]
    [] st.op = "LinkParent"       -> [c EXCEPT !.s = LinkParent(@, st.plabel, st.pname, st.id)]
    [] st.op = "MergeFlowNode"    -> [c EXCEPT !.s = MergeFlowNode(@, st.category, st.id, st.props)]
    [] st.op = "LinkHasNode"      -> [c EXCEPT !.s = LinkHasNode(@, st.id, st.node)]
    [] st.op = "MergeEdge"        -> [c EXCEPT !.s = MergeEdge(@, st.source, st.target, st.type)]
    [] st.op = "SetExperiment"    -> [c EXCEPT !.s = SetExperimentMain(@, st.id, st.props)]
    [] st.op = "DeleteOwned"      -> [c EXCEPT !.s = DeleteOwned(@, st.id, st.type)]
    [] st.op = "CreateNodes"      -> CreateNodes(c, st.items, 1)
    [] st.op = "CreateRel"        -> [c EXCEPT !.s = AddRels(@, {c.env[st.a]}, st.type, {c.env[st.b]})]
    [] st.op = "Push"             -> [c EXCEPT !.s = PushNode(@, c.env[st.a], st.props)]

\* the first n statements of stmts, in order
RECURSIVE RunStmts(_, _, _)
RunStmts(c, stmts, n) ==
  IF n = 0 THEN c ELSE Exec(RunStmts(c, stmts, n - 1), stmts[n])

\* tx.commit(): the working copy becomes the store
Commit(committed, work) == work

\* a rollback that leaves the statements already run in the store
RollbackKeepsWork(committed, work) == work

\* tx.rollback(): the working copy is dropped
Rollback(committed, work) == committed

\* an HTTPException(404) raised inside "try: ... except Exception as e:
\* raise HTTPException(status_code=500, ...)" leaves the handler as the 500
ExceptWrap(kind) == "Internal"

(***************************************************************************)
(* Statement lists of the write handlers.                                  *)
(***************************************************************************)
ExpPropsMain(req, u) ==
  [id |-> u, name |-> req.experiment_name, registrant |-> req.registrant,
   registration_date |-> IsoFormat(req.registration_date)]

FolderStmts(project, parts) ==
  [i \in 1..Len(parts) |->
     [op |-> "MergeFolder",
      plabel |-> IF i = 1 THEN "Project" ELSE "Folder",
      pname  |-> IF i = 1 THEN project ELSE parts[i - 1],
      name   |-> parts[i]]]

ParentStmt(project, parts, u) ==
  IF parts = <<>>
  THEN [op |-> "LinkParent", plabel |-> "Project", pname |-> project, id |-> u]
  ELSE [op |-> "LinkParent", plabel |-> "Folder", pname |-> parts[Len(parts)], id |-> u]

\* for node in data.nodes: MERGE the node, then MERGE (e)-[:HAS_NODE]->(n)
NodeStmts(nodes, u) ==
  [k \in 1..(2 * Len(nodes)) |->
     LET nd == nodes[(k + 1) \div 2]
     IN  IF k % 2 = 1
         THEN [op |-> "MergeFlowNode", category |-> nd.category, id |-> nd.id,
               props |-> ModelDumpMain(nd.properties)]
         ELSE [op |-> "LinkHasNode", id |-> u, node |-> nd.id]]

EdgeStmts(edges) ==
  [k \in 1..Len(edges) |->
     [op |-> "MergeEdge", source |-> edges[k].source_id,
      target |-> edges[k].target_id, type |-> edges[k].type]]

MainCreateStmts(req, u) ==
  LET parts == SplitPath(req.folder_path)
  IN  << [op |-> "MergeProject", name |-> req.project_name] >>
      \o FolderStmts(req.project_name, parts)
      \o << [op |-> "CreateExperiment", props |-> ExpPropsMain(req, u)],
            ParentStmt(req.project_name, parts, u) >>
      \o NodeStmts(req.nodes, u)
      \o EdgeStmts(req.edges)

MainUpdateStmts(id, req) ==
  << [op |-> "SetExperiment", id |-> id,
      props |-> [name |-> req.experiment_name, registrant |-> req.registrant,
                 registration_data |-> IsoFormat(req.registration_date)]],
     [op |-> "DeleteOwned", id |-> id, type |-> "HAS_NODE"] >>
  \o NodeStmts(req.nodes, id)
  \o EdgeStmts(req.edges)

ExpPropsRouter(req) ==
  [project_name |-> req.project_name, folder_path |-> req.folder_path,
   experiment_name |-> req.experiment_name, registrant |-> req.registrant,
   registration_date |-> IsoFormat(req.registration_date)]

\* Py2NeoNode(category, id=node_data.id, **props); a None value is no property
DataNode(nd) ==
  [label |-> nd.category,
   props |-> DropNone([id |-> nd.id] @@ ModelDumpRouter(nd.properties))]

\* node_map.get(id): the index of the last declared node with that id, 0 if none
NodeMap(nodes, id) ==
  LET I == {i \in 1..Len(nodes) : nodes[i].id = id}
  IN  IF I = {} THEN 0 ELSE MaxOf(I)

\* the declared edges whose two ends node_map resolves
ResolvedEdges(req) ==
  SelectSeq(req.edges, LAMBDA e : NodeMap(req.nodes, e.source_id) # 0
                                  /\ NodeMap(req.nodes, e.target_id) # 0)

\* tx.create(Relationship(start_node, edge_data.type, end_node)); the py2neo
\* object of the i-th declared node is env[1 + i], env[1] is exp_node
RouterEdgeStmts(req) ==
  LET E == ResolvedEdges(req)
  IN  [k \in 1..Len(E) |->
         [op |-> "CreateRel", a |-> 1 + NodeMap(req.nodes, E[k].source_id),
          type |-> E[k].type, b |-> 1 + NodeMap(req.nodes, E[k].target_id)]]

RouterCreateStmts(req, u) ==
  << [op |-> "CreateNodes",
      items |-> << [label |-> "Experiment",
                    props |-> [id |-> u] @@ ExpPropsRouter(req)] >>
                \o [i \in 1..Len(req.nodes) |-> DataNode(req.nodes[i])]] >>
  \o [i \in 1..Len(req.nodes) |->
        [op |-> "CreateRel", a |-> 1, type |-> "CONTAINS", b |-> 1 + i]]
  \o RouterEdgeStmts(req)

RouterUpdateStmts(id, req) ==
  << [op |-> "Push", a |-> 1, props |-> ExpPropsRouter(req)],
     [op |-> "DeleteOwned", id |-> id, type |-> "CONTAINS"] >>
  \o [k \in 1..(2 * Len(req.nodes)) |->
        IF k % 2 = 1
        THEN [op |-> "CreateNodes", items |-> << DataNode(req.nodes[(k + 1) \div 2]) >>]
        ELSE [op |-> "CreateRel", a |-> 1, type |-> "CONTAINS", b |-> 1 + (k \div 2)]]
  \o RouterEdgeStmts(req)

(***************************************************************************)
(* Read handlers, as functions of the store.                               *)
(***************************************************************************)
NodeOf(s, nid) == CHOOSE n \in s.nodes : n.nid = nid

WithoutId(props) == [k \in DOMAIN props \ {"id"} |-> props[k]]

\* internal ids of the nodes with a CONTAINS path of length >= 1 to front
RECURSIVE Above(_, _, _)
Above(s, front, seen) ==
  LET up == {r.src : r \in {x \in s.rels : x.type = "CONTAINS" /\ x.dst \in front}} \ seen
  IN  IF up = {} THEN seen ELSE Above(s, up, seen \cup up)

\* (p:Project)-[:CONTAINS*]->(e)
ProjectsAbove(s, nid) ==
  {p \in s.nodes : p.label = "Project" /\ p.nid \in Above(s, {nid}, {})}

\* OPTIONAL MATCH (n)-[r]->(m) WHERE (e)-[:HAS_NODE]->(m), n and m in S
Induced(s, S) == {r \in s.rels : r.src \in Nids(S) /\ r.dst \in Nids(S)}

FormatEdge(s, r) ==
  [source_id |-> NodeOf(s, r.src).props["id"],
   target_id |-> NodeOf(s, r.dst).props["id"],
   type      |-> r.type]

\* PropModel.model_validate(props) of src/main.py: the declared fields of
\* the category's model, None where the node has no such property
ShapeMain(category, props) ==
  [k \in SchemaKeys(category) |-> IF k \in DOMAIN props THEN props[k] ELSE NoneVal]

FormatNodeMain(n) ==
  [nid |-> n.nid, id |-> n.props["id"], category |-> n.label,
   properties |-> ShapeMain(n.label, WithoutId(n.props))]

FormatNodeRouter(n) ==
  [nid |-> n.nid, id |-> n.props["id"], category |-> n.label,
   properties |-> ModelDumpRouter(WithoutId(n.props))]

\* the attributes of the experiment in a response
Attrs(id, name, registrant, date) ==
  [experiment_id |-> id, experiment_name |-> name,
   registrant |-> registrant, registration_date |-> date]

NotFoundResponse ==
  [kind |-> "NotFound", attrs |-> Attrs(NoId, "", "", <<>>), nodes |-> {}, edges |-> {}]

\* "experiment_id": exp_node['id'], "experiment_name": exp_node['name'], ...
AttrsMain(e) ==
  Attrs(e.props["id"], e.props["name"], e.props["registrant"],
        e.props["registration_date"])

\* id=uuid.UUID(exp_node['id']), experiment_name=exp_node['experiment_name'], ...
AttrsRouter(e) ==
  Attrs(e.props["id"], e.props["experiment_name"], e.props["registrant"],
        e.props["registration_date"])

\* get_note of src/main.py
GetNoteMain(s, id) ==
  LET E == NodesWith(s, "Experiment", "id", id)
      S == Owned(s, id, "HAS_NODE")
  IN  IF (\E e \in E : ProjectsAbove(s, e.nid) # {}) /\ S # {}
      THEN [kind  |-> "ok",
            attrs |-> AttrsMain(CHOOSE e \in E : TRUE),
            nodes |-> {FormatNodeMain(n) : n \in S},
            edges |-> {FormatEdge(s, r) : r \in Induced(s, S)}]
      ELSE NotFoundResponse

\* get_note_by_uuid of src/routers/notes.py
GetNoteRouter(s, id) ==
  LET S == Owned(s, id, "CONTAINS")
  IN  IF S # {}
      THEN [kind  |-> "ok",
            attrs |-> AttrsRouter(CHOOSE e \in NodesWith(s, "Experiment", "id", id) : TRUE),
            nodes |-> {FormatNodeRouter(n) : n \in S},
            edges |-> {FormatEdge(s, r) : r \in Induced(s, S)}]
      ELSE NotFoundResponse

GetNote(s, id) == IF impl = "main" THEN GetNoteMain(s, id) ELSE GetNoteRouter(s, id)

(***************************************************************************)
(* Requests the clients send.                                              *)
(***************************************************************************)
Projects == {"P1", "P2"}

\* "/", "a", "/a/", "a/a"
FolderPaths == {<<"/">>, <<"a">>, <<"/", "a", "/">>, <<"a", "/", "a">>}

Metas ==
  {[experiment_name |-> "run1", registrant |-> "ann", registration_date |-> <<2024, 1, 9>>],
   [experiment_name |-> "run2", registrant |-> "bob", registration_date |-> <<2024, 1, 10>>]}

\* "Lot" is declared by no property model
PropsAspirin == ("Node Name" :> "aspirin") @@ ("CAS RN" :> "50-78-2") @@ ("Lot" :> "L1")

PropsStir == ("Node Name" :> "stir")

PropsMemo == ("Node Name" :> "memo")

PropsSalt == ("Node Name" :> "salt")

NodeDecl(id, category, properties) ==
  [id |-> id, category |-> category, properties |-> properties]

EdgeDecl(source, target, type) ==
  [source_id |-> source, target_id |-> target, type |-> type]

FlowOne ==
  [nodes |-> << NodeDecl("n1", "Substances", PropsAspirin) >>, edges |-> <<>>]

Flowcharts ==
  { [nodes |-> <<>>, edges |-> <<>>],
    FlowOne,
    [nodes |-> << NodeDecl("n1", "Substances", PropsAspirin),
                  NodeDecl("n2", "Processing", PropsStir) >>,
     edges |-> << EdgeDecl("n1", "n2", "NEXT") >>],
    [nodes |-> << NodeDecl("n1", "Processing", PropsStir) >>,
     edges |-> << EdgeDecl("n1", "n2", "NEXT") >>],
    [nodes |-> << NodeDecl("n3", "Others", PropsMemo) >>,
     edges |-> << EdgeDecl("n2", "n1", "BACK") >>],
    \* the id and category of FlowOne's node with other properties
    [nodes |-> << NodeDecl("n1", "Substances", PropsSalt) >>, edges |-> <<>>] }

\* a category outside the Literal; properties without "Node Name"
BadFlowcharts ==
  { [nodes |-> << NodeDecl("n1", "Catalyst", PropsStir) >>, edges |-> <<>>],
    [nodes |-> << NodeDecl("n1", "Substances", ("CAS RN" :> "50-78-2")) >>,
     edges |-> <<>>] }

Request(p, fp, m, f) ==
  [project_name |-> p, folder_path |-> fp, experiment_name |-> m.experiment_name,
   registrant |-> m.registrant, registration_date |-> m.registration_date,
   nodes |-> f.nodes, edges |-> f.edges]

\* "/", "/a", "/ab"
ShelfPaths == {<<"/">>, <<"/", "a">>, <<"/", "ab">>}

\* three distinct registration dates
ShelfMetas ==
  {[experiment_name |-> "run1", registrant |-> "ann", registration_date |-> <<2024, 1, 9>>],
   [experiment_name |-> "run2", registrant |-> "bob", registration_date |-> <<2024, 1, 10>>],
   [experiment_name |-> "run3", registrant |-> "cy", registration_date |-> <<2023, 12, 31>>]}

\* The requests of a behaviour come from one of three workloads: "filing"
\* varies the project and the folder path, "flowchart" varies the
\* attributes, the nodes and the edges and has bodies that do not validate,
\* "shelf" varies the registration date and the folder of one project.
Workloads == {"filing", "flowchart", "shelf"}

Requests ==
  IF workload = "filing"
  THEN {Request(p, fp, m, FlowOne) :
          p \in Projects, fp \in FolderPaths, m \in {x \in Metas : x.registrant = "ann"}}
  ELSE IF workload = "flowchart"
  THEN {Request("P1", <<"/">>, m, f) : m \in Metas, f \in Flowcharts}
       \cup {Request("P1", <<"/">>, m, f) :
                m \in {x \in Metas : x.registrant = "ann"}, f \in BadFlowcharts}
  ELSE {Request("P1", fp, m, FlowOne) : fp \in ShelfPaths, m \in ShelfMetas}

\* the request slot of a call that carries no body (delete)
NoRequest ==
  [project_name |-> "", folder_path |-> <<>>, experiment_name |-> "",
   registrant |-> "", registration_date |-> <<0, 0, 0>>,
   nodes |-> <<>>, edges |-> <<>>]

\* an identifier no create ever returned
UnknownId == "u0"

\* identifiers a client may pass to update and delete
KnownIds == {UuidPool[k] : k \in 1..uuids} \cup {UnknownId}

(***************************************************************************)
(* Write handlers.  failAt says where the store raises during the call:    *)
(* 0 nowhere; the other values are numbered per handler below.  last is    *)
(* the call just served and its response:                                  *)
(*   op, id, req   the call                                                *)
(*   kind          "ok", "Invalid" (422), "NotFound" (404) or              *)
(*                 "Internal" (500)                                        *)
(*   fail          the store raised during the call                        *)
(*   dirty         ... after the transaction had changed its working copy  *)
(*   missing       the id of an update/delete matched no Experiment        *)
(*   tx            what the call did with explicit transactions            *)
(***************************************************************************)
Response(op, kind, id, req, fail, dirty, missing, tx) ==
  [op |-> op, kind |-> kind, id |-> id, req |-> req,
   fail |-> fail, dirty |-> dirty, missing |-> missing, tx |-> tx]

\* begun: transactions begun by graph.begin(); finish: how the transaction
\* was finished ("commit", "rollback", or "none"); late: calls made on the
\* transaction after it was finished
Tx(begun, finish, late) == [begun |-> begun, finish |-> finish, late |-> late]

NoTx == Tx(0, "none", 0)

\* the body does not validate: the framework answers 422 and the handler
\* is not called
Rejected(op, id, req) ==
  /\ db' = db
  /\ uuids' = uuids
  /\ last' = Response(op, "Invalid", id, req, FALSE, FALSE, FALSE, NoTx)

Ctx(s, env) == [s |-> s, env |-> env]

\* create_note of src/main.py.
\* failAt: 1 graph.begin(), 1 + k the k-th tx.run, N + 2 tx.commit()
MainCreate ==
  /\ impl = "main"
  /\ nops < MaxOps
  /\ \E req \in Requests :
       IF ~ValidBody(req) THEN Rejected("create", NoId, req)
       ELSE
       LET u     == UuidPool[uuids + 1]
           stmts == MainCreateStmts(req, u)
           N     == Len(stmts)
       IN  \E failAt \in 0..(N + 2) :
             LET ran  == IF failAt = 0 THEN N ELSE IF failAt = 1 THEN 0 ELSE failAt - 2
                 work == RunStmts(Ctx(db, <<>>), stmts, ran).s
                 \* uuid.uuid4() runs after the folder statements
                 made == ran >= 1 + Len(SplitPath(req.folder_path))
                 \* except: if tx: tx.rollback()
                 tx   == IF failAt = 0 THEN Tx(1, "commit", 0)
                         ELSE IF failAt = 1 THEN NoTx
                         ELSE Tx(1, "rollback", 0)
             IN  /\ db' = IF failAt = 0 THEN Commit(db, work) ELSE Rollback(db, work)
                 /\ uuids' = IF made THEN uuids + 1 ELSE uuids
                 /\ last' = Response("create", IF failAt = 0 THEN "ok" ELSE "Internal",
                                     IF failAt = 0 THEN u ELSE NoId, req,
                                     failAt # 0, failAt # 0 /\ work # db, FALSE, tx)
  /\ nops' = nops + 1
  /\ UNCHANGED <<impl, workload, txs>>

\* update_note of src/main.py.
\* failAt: 1 graph.begin(), 1 + k the k-th tx.run, N + 2 tx.commit()
MainUpdate ==
  /\ impl = "main"
  /\ nops < MaxOps
  /\ \E id \in KnownIds, req \in Requests :
       IF ~ValidBody(req) THEN Rejected("update", id, req)
       ELSE
       LET stmts   == MainUpdateStmts(id, req)
           N       == Len(stmts)
           \* result_tx.stats()['properties_set'] == 0
           missing == NodesWith(db, "Experiment", "id", id) = {}
       IN  \E failAt \in 0..(N + 2) :
             LET ran  == IF failAt = 0 THEN N ELSE IF failAt = 1 THEN 0 ELSE failAt - 2
                 stop == missing /\ ran >= 1
                 work == RunStmts(Ctx(db, <<>>), stmts, IF stop THEN 1 ELSE ran).s
                 \* on the 404 path tx.rollback() is called before the raise
                 \* and once more by the except branch
                 tx   == IF stop THEN Tx(1, "rollback", 1)
                         ELSE IF failAt = 0 THEN Tx(1, "commit", 0)
                         ELSE IF failAt = 1 THEN NoTx
                         ELSE Tx(1, "rollback", 0)
             IN  /\ db' = IF stop \/ failAt # 0 THEN Rollback(db, work)
                          ELSE Commit(db, work)
                 /\ uuids' = uuids
                 /\ last' = Response("update",
                                     IF stop THEN ExceptWrap("NotFound")
                                     ELSE IF failAt = 0 THEN "ok" ELSE "Internal",
                                     id, req, ~stop /\ failAt # 0,
                                     ~stop /\ failAt # 0 /\ work # db, missing, tx)
  /\ nops' = nops + 1
  /\ UNCHANGED <<impl, workload, txs>>

\* delete_note of src/main.py: one auto-committed statement.
\* failAt: 1 graph.run
MainDelete ==
  /\ impl = "main"
  /\ nops < MaxOps
  /\ \E id \in KnownIds, failAt \in 0..1 :
       LET E       == NodesWith(db, "Experiment", "id", id)
           \* MATCH (e) OPTIONAL MATCH (e)-[:HAS_NODE]->(n) DETACH DELETE e, n
           gone    == Nids(E \cup Owned(db, id, "HAS_NODE"))
       IN  /\ db' = IF failAt = 0 THEN DetachDelete(db, gone) ELSE db
           /\ last' = Response("delete",
                               IF failAt # 0 THEN "Internal"
                               ELSE IF gone = {} THEN ExceptWrap("NotFound") ELSE "ok",
                               id, NoRequest, failAt # 0, FALSE, E = {}, NoTx)
  /\ nops' = nops + 1
  /\ UNCHANGED <<impl, workload, uuids, txs>>

\* create_note of src/routers/notes.py.
\* failAt: 1 graph.begin(), 1 + k the k-th tx.create, N + 2 graph.commit(tx)
RouterCreate ==
  /\ impl = "router"
  /\ nops < MaxOps
  /\ \E req \in Requests :
       IF ~ValidBody(req) THEN Rejected("create", NoId, req)
       ELSE
       LET u     == UuidPool[uuids + 1]
           stmts == RouterCreateStmts(req, u)
           N     == Len(stmts)
       IN  \E failAt \in 0..(N + 2) :
             LET ran  == IF failAt = 0 THEN N ELSE IF failAt = 1 THEN 0 ELSE failAt - 2
                 work == RunStmts(Ctx(db, <<>>), stmts, ran).s
                 \* graph.begin() is called before the try block
                 tx   == IF failAt = 0 THEN Tx(1, "commit", 0)
                         ELSE IF failAt = 1 THEN NoTx
                         ELSE Tx(1, "rollback", 0)
             IN  /\ db' = IF failAt = 0 THEN Commit(db, work) ELSE Rollback(db, work)
                 \* new_uuid = uuid.uuid4() is the first line of the handler
                 /\ uuids' = uuids + 1
                 /\ last' = Response("create", IF failAt = 0 THEN "ok" ELSE "Internal",
                                     IF failAt = 0 THEN u ELSE NoId, req,
                                     failAt # 0, failAt # 0 /\ work # db, FALSE, tx)
  /\ nops' = nops + 1
  /\ UNCHANGED <<impl, workload, txs>>

\* update_note of src/routers/notes.py.
\* failAt: 1 graph.begin(), 2 graph.nodes.match(), 2 + k the k-th tx call,
\*         N + 3 graph.commit(tx)
RouterUpdate ==
  /\ impl = "router"
  /\ nops < MaxOps
  /\ \E id \in KnownIds, req \in Requests :
       IF ~ValidBody(req) THEN Rejected("update", id, req)
       ELSE
       LET stmts   == RouterUpdateStmts(id, req)
           N       == Len(stmts)
           E       == NodesWith(db, "Experiment", "id", id)
           missing == E = {}
       IN  \E failAt \in 0..(N + 3) :
             LET ran  == IF failAt = 0 THEN N ELSE IF failAt <= 2 THEN 0 ELSE failAt - 3
                 \* if not exp_node: raise HTTPException(status_code=404)
                 stop == missing /\ failAt \notin {1, 2}
                 work == IF missing THEN db
                         ELSE RunStmts(Ctx(db, << (CHOOSE e \in E : TRUE).nid >>),
                                       stmts, ran).s
                 done == IF stop \/ failAt # 0 THEN Rollback(db, work)
                         ELSE Commit(db, work)
                 \* return await get_note_by_uuid(exp_uuid, graph), inside the
                 \* try block: its 404 reaches the except branch, which calls
                 \* graph.rollback(tx) on the committed transaction
                 lost == ~stop /\ failAt = 0 /\ GetNoteRouter(done, id).kind = "NotFound"
                 tx   == IF failAt = 1 THEN NoTx
                         ELSE IF stop \/ failAt # 0 THEN Tx(1, "rollback", 0)
                         ELSE Tx(1, "commit", IF lost THEN 1 ELSE 0)
             IN  /\ db' = done
                 /\ uuids' = uuids
                 /\ last' = Response("update",
                                     IF stop THEN ExceptWrap("NotFound")
                                     ELSE IF failAt # 0 THEN "Internal"
                                     ELSE IF lost THEN ExceptWrap("NotFound")
                                     ELSE "ok",
                                     id, req, ~stop /\ failAt # 0,
                                     ~stop /\ failAt # 0 /\ work # db, missing, tx)
  /\ nops' = nops + 1
  /\ UNCHANGED <<impl, workload, txs>>

\* delete_note_by_uuid of src/routers/notes.py: one auto-committed statement.
\* failAt: 1 graph.run
RouterDelete ==
  /\ impl = "router"
  /\ nops < MaxOps
  /\ \E id \in KnownIds, failAt \in 0..1 :
       LET E == NodesWith(db, "Experiment", "id", id)
       IN  \* MATCH (exp:Experiment {id: $exp_uuid}) DETACH DELETE exp
           /\ db' = IF failAt = 0 THEN DetachDelete(db, Nids(E)) ELSE db
           /\ last' = Response("delete",
                               IF failAt # 0 THEN "Internal"
                               ELSE IF E = {} THEN "NotFound" ELSE "ok",
                               id, NoRequest, failAt # 0, FALSE, E = {}, NoTx)
  /\ nops' = nops + 1
  /\ UNCHANGED <<impl, workload, uuids, txs>>

\* an open transaction of a worker thread: the request it serves, the
\* statements it has run, the nodes and relationships it has written and
\* not yet committed, and the nodes it holds locked
Worker(phase, req, u, pc, own, locks) ==
  [phase |-> phase, req |-> req, u |-> u, pc |-> pc, own |-> own, locks |-> locks]

Idle == Worker("idle", NoRequest, NoId, 0, EmptyStore, {})

Init ==
  /\ impl \in Impls
  /\ workload \in Workloads
  /\ db = EmptyStore
  /\ uuids = 0
  /\ nops = 0
  /\ last = Response("none", "ok", NoId, NoRequest, FALSE, FALSE, FALSE, NoTx)
  /\ txs = [i \in 1..Clients |-> Idle]

Next ==
  \/ MainCreate
  \/ MainUpdate
  \/ MainDelete
  \/ RouterCreate
  \/ RouterUpdate
  \/ RouterDelete

Spec == Init /\ [][Next]_vars

(***************************************************************************)
(* Vocabulary of the properties.                                           *)
(***************************************************************************)
\* the relationship type by which an experiment owns its FlowNodes
OwnType == IF impl = "main" THEN "HAS_NODE" ELSE "CONTAINS"

OwnedNodes(s, id) == Owned(s, id, OwnType)

ExperimentExists(s, id) == NodesWith(s, "Experiment", "id", id) # {}

WriteOk(r) == r.op \in {"create", "update"} /\ r.kind = "ok"

DeclaredIds(req) == {req.nodes[i].id : i \in 1..Len(req.nodes)}

DistinctIds(req) == Cardinality(DeclaredIds(req)) = Len(req.nodes)

\* the Project and Folder nodes and the containment edges between them
Hierarchy(s) ==
  LET H == {n \in s.nodes : n.label \in {"Project", "Folder"}}
  IN  [nodes |-> H,
       rels  |-> {r \in s.rels : r.type = "CONTAINS" /\ r.dst \in Nids(H)}]

\* sources of the containment edges that enter the experiment
Anchors(s, id) ==
  {r.src : r \in {x \in s.rels : x.type = "CONTAINS"
                                 /\ x.dst \in Nids(NodesWith(s, "Experiment", "id", id))}}

\* the nodes reached from the named Project by following the segments in order
RECURSIVE Walk(_, _, _, _)
Walk(s, cur, parts, i) ==
  IF i > Len(parts) THEN cur
  ELSE Walk(s, {f.nid : f \in {n \in NodesWith(s, "Folder", "name", parts[i]) :
                                  \E p \in cur : Rel(p, "CONTAINS", n.nid) \in s.rels}},
            parts, i + 1)

ResolvedAnchors(s, req) ==
  Walk(s, Nids(NodesWith(s, "Project", "name", req.project_name)),
       SplitPath(req.folder_path), 1)

(***************************************************************************)
(* C1  Atomic writes.                                                      *)
(***************************************************************************)
\* C1: when the store raises at any statement of a create or an update
\* (begin and commit included), the store after the call equals the store
\* before the call: nothing of the request persists, and for update the old
\* attributes, FlowNodes and FlowEdges are all still there.
C1_AllOrNothing ==
  [][(last'.op \in {"create", "update"} /\ last'.fail) => db' = db]_vars

\* an update failed after its transaction had already changed the working copy
C1_Witness == last.op = "update" /\ last.fail /\ last.dirty

(***************************************************************************)
(* C2  Closure of the edges a read returns.                                *)
(***************************************************************************)
\* every edge of get(id) has both ends among the nodes of the same get(id)
C2_Closure ==
  \A id \in KnownIds :
     LET g == GetNote(db, id)
     IN  \A e \in g.edges : /\ e.source_id \in {n.id : n \in g.nodes}
                            /\ e.target_id \in {n.id : n \in g.nodes}

\* a successful write of experiment a adds no edge to get(b) of an
\* experiment b that shares no FlowNode with a
C2_NoForeignEdge ==
  [][\A b \in KnownIds :
       (WriteOk(last') /\ last'.id # b
        /\ OwnedNodes(db', last'.id) \cap OwnedNodes(db', b) = {})
       => GetNote(db', b).edges \subseteq GetNote(db, b).edges]_vars

\* C2: in every reachable store every edge returned by get(id) has its
\* source and its target among the nodes of that get; and for experiments A
\* and B that share no FlowNode, an edge created only by A's request never
\* appears in get(B).
C2_ClosedAndIsolated == []C2_Closure /\ C2_NoForeignEdge

(***************************************************************************)
(* C3  Idempotent path resolution.                                         *)
(***************************************************************************)
\* C3: a create that repeats the project name and the folder path of the
\* create before it adds no Project node, no Folder node and no containment
\* edge between them, and its experiment ends under the same anchor.
C3_ResolveIdempotent ==
  [][(/\ impl = "main"
      /\ last.op = "create" /\ last.kind = "ok"
      /\ last'.op = "create" /\ last'.kind = "ok" /\ last'.id # last.id
      /\ last'.req.project_name = last.req.project_name
      /\ last'.req.folder_path = last.req.folder_path)
     => /\ Hierarchy(db') = Hierarchy(db)
        /\ Anchors(db', last'.id) = Anchors(db, last.id)]_vars

(***************************************************************************)
(* C4  Round trip of the declared FlowNodes.                               *)
(***************************************************************************)
\* C4: after a successful create that declares FlowNodes with distinct ids,
\* get of the returned id returns exactly one node per declared FlowNode,
\* with its id, its category and its properties, undeclared keys included.
C4_RoundTrip ==
  (last.op = "create" /\ last.kind = "ok"
   /\ last.req.nodes # <<>> /\ DistinctIds(last.req))
  => LET g    == GetNote(db, last.id)
         decl == last.req.nodes
     IN  /\ g.kind = "ok"
         /\ Cardinality(g.nodes) = Len(decl)
         /\ \A i \in 1..Len(decl) :
               \E n \in g.nodes : /\ n.id = decl[i].id
                                  /\ n.category = decl[i].category
                                  /\ DropNone(n.properties) = decl[i].properties

(***************************************************************************)
(* C5  Update replaces the flowchart.                                      *)
(***************************************************************************)
\* the declared edges both of whose ends the request declares
DeclaredEdges(req) ==
  {req.edges[k] : k \in {j \in 1..Len(req.edges) :
                           /\ req.edges[j].source_id \in DeclaredIds(req)
                           /\ req.edges[j].target_id \in DeclaredIds(req)}}

\* C5: after a successful update that declares FlowNodes, get returns
\* exactly the FlowNodes and the FlowEdges the update request declares.
C5_UpdateReplaces ==
  (last.op = "update" /\ last.kind = "ok"
   /\ last.req.nodes # <<>> /\ DistinctIds(last.req))
  => LET g    == GetNote(db, last.id)
         decl == last.req.nodes
     IN  /\ g.kind = "ok"
         /\ Cardinality(g.nodes) = Len(decl)
         /\ {<<n.id, n.category>> : n \in g.nodes}
              = {<<decl[i].id, decl[i].category>> : i \in 1..Len(decl)}
         /\ g.edges = DeclaredEdges(last.req)

(***************************************************************************)
(* C6  Delete cascades.                                                    *)
(***************************************************************************)
\* C6: after a successful delete the Experiment node, every FlowNode it
\* owned and every relationship at those FlowNodes are gone from the store,
\* and get of the id returns NotFound.
C6_DeleteCascades ==
  [][(last'.op = "delete" /\ last'.kind = "ok")
     => LET own == Nids(OwnedNodes(db, last'.id))
        IN  /\ ~ExperimentExists(db', last'.id)
            /\ own \cap Nids(db'.nodes) = {}
            /\ \A r \in db'.rels : r.src \notin own /\ r.dst \notin own
            /\ GetNote(db', last'.id).kind = "NotFound"]_vars

(***************************************************************************)
(* C7  Edges with a missing endpoint.                                      *)
(***************************************************************************)
DanglingEdges(req) ==
  {req.edges[k] : k \in 1..Len(req.edges)} \ DeclaredEdges(req)

\* C7: a create or update that declares an edge with an end that is no
\* FlowNode of the same request succeeds and creates no relationship for
\* that edge, also when a node with that id exists elsewhere in the store;
\* every declared FlowNode and every edge with both ends declared is created.
C7_MissingEndpoint ==
  [][(WriteOk(last') /\ DanglingEdges(last'.req) # {})
     => /\ \A e \in DanglingEdges(last'.req) :
             \A r \in db'.rels \ db.rels :
                ~(/\ r.type = e.type
                  /\ NodeOf(db', r.src).props["id"] = e.source_id
                  /\ NodeOf(db', r.dst).props["id"] = e.target_id)
        /\ LET g == OwnedNodes(db', last'.id)
           IN  /\ \A i \in 1..Len(last'.req.nodes) :
                     \E n \in g : /\ n.props["id"] = last'.req.nodes[i].id
                                  /\ n.label = last'.req.nodes[i].category
               /\ \A e \in DeclaredEdges(last'.req) :
                     \E r \in Induced(db', g) : FormatEdge(db', r) = e]_vars

(***************************************************************************)
(* C8  Unknown id on update and delete.                                    *)
(***************************************************************************)
\* C8: an update or delete whose id matches no Experiment ends with the
\* NotFound kind and leaves the store unchanged.
C8_UnknownIdNotFound ==
  [][(last'.op \in {"update", "delete"} /\ last'.missing /\ ~last'.fail)
     => (last'.kind = "NotFound" /\ db' = db)]_vars

(***************************************************************************)
(* C9  get and NotFound.                                                   *)
(***************************************************************************)
\* C9: get(id) returns NotFound if and only if the store holds no
\* Experiment with that id.
C9_NotFoundIffAbsent ==
  \A id \in KnownIds :
     (GetNote(db, id).kind = "NotFound") <=> ~ExperimentExists(db, id)

(***************************************************************************)
(* C10  One containment edge into every experiment.                       *)
(***************************************************************************)
\* C10: every Experiment has exactly one incoming containment edge, and the
\* experiment of a create hangs under the anchor its request resolves to.
C10_SingleParent ==
  impl = "main"
  => /\ \A e \in {n \in db.nodes : n.label = "Experiment"} :
           Cardinality({r \in db.rels : r.type = "CONTAINS" /\ r.dst = e.nid}) = 1
     /\ (last.op = "create" /\ last.kind = "ok")
           => /\ Anchors(db, last.id) \subseteq ResolvedAnchors(db, last.req)
              /\ Cardinality(Anchors(db, last.id)) = 1

(***************************************************************************)
(* C11  Every FlowNode has one owner.                                      *)
(***************************************************************************)
FlowNodes(s) == {n \in s.nodes : n.label \in Categories}

\* the Experiment nodes with an ownership edge into the node
Owners(s, nid) ==
  {e \in s.nodes : e.label = "Experiment" /\ Rel(e.nid, OwnType, nid) \in s.rels}

SingleOwner(s) == \A n \in FlowNodes(s) : Cardinality(Owners(s, n.nid)) = 1

\* C11: a successful create, update or delete of a store in which every
\* FlowNode has exactly one owning Experiment leaves a store in which every
\* FlowNode has exactly one owning Experiment (none shared, none orphaned).
C11_SingleOwner ==
  [][(last'.kind = "ok" /\ SingleOwner(db)) => SingleOwner(db')]_vars

(***************************************************************************)
(* Listing and search handlers, as functions of the store.  A result is    *)
(* the error kind or the set of Experiment nodes of the returned rows.     *)
(***************************************************************************)
\* the characters of a path token
Chars(t) == IF t = "ab" THEN << "a", "b" >> ELSE << t >>

\* the path string, as the sequence of its characters
RECURSIVE PathString(_)
PathString(path) ==
  IF path = <<>> THEN <<>> ELSE Chars(Head(path)) \o PathString(Tail(path))

\* x STARTS WITH y
StartsWith(x, y) == Len(y) <= Len(x) /\ SubSeq(x, 1, Len(y)) = y

Experiments(s) == {n \in s.nodes : n.label = "Experiment"}

\* (a)-[:CONTAINS]->(e:Experiment) for a among the internal ids in A
ExperimentsUnder(s, A) ==
  {e \in Experiments(s) : \E a \in A : Rel(a, "CONTAINS", e.nid) \in s.rels}

ListResult(kind, rows) == [kind |-> kind, rows |-> rows]

\* list_experiments of src/main.py: below the root the query names the
\* parameters $f_name0, $f_name1, ... and is run with f_name_0, f_name_1, ...
ListMain(s, project, path) ==
  IF SplitPath(path) = <<>>
  THEN ListResult("ok", ExperimentsUnder(s, Nids(NodesWith(s, "Project", "name", project))))
  ELSE ListResult("Internal", {})

\* list_experiments of src/main_gemini.py
ListGemini(s, project, path) ==
  ListResult("ok",
     ExperimentsUnder(s, Walk(s, Nids(NodesWith(s, "Project", "name", project)),
                              SplitPath(path), 1)))

\* list_or_search_experiments of src/routers/notes.py with project_name and
\* folder_path given
ListRouter(s, project, path) ==
  ListResult("ok",
     {e \in Experiments(s) :
         /\ e.props["project_name"] = project
         /\ StartsWith(PathString(e.props["folder_path"]), PathString(path))})

\* the listings that run over the store of a deployment
ListVariants == IF impl = "main" THEN {"main", "gemini"} ELSE {"router"}

ListExperiments(v, s, project, path) ==
  CASE v = "main"   -> ListMain(s, project, path)
    [] v = "gemini" -> ListGemini(s, project, path)
    [] v = "router" -> ListRouter(s, project, path)

\* what a client may ask a listing for
QueryPaths == FolderPaths \cup ShelfPaths

Listed(v, s, project, path, id) ==
  LET r == ListExperiments(v, s, project, path)
  IN  r.kind = "ok" /\ \E e \in r.rows : e.props["id"] = id

\* a is a leading part of b (sequences of path segments)
IsPrefix(a, b) == Len(a) <= Len(b) /\ SubSeq(b, 1, Len(a)) = a

(***************************************************************************)
(* C12  Scope of the listing.                                              *)
(***************************************************************************)
\* C12: the experiment of a successful create is listed under its project
\* and its folder path, and under no other project and no folder path that
\* is not a leading part of its own; a deleted experiment is listed nowhere;
\* and a write of one experiment changes no listing of another experiment.
C12_ListScope ==
  [][\A v \in ListVariants, p \in Projects, q \in QueryPaths :
       /\ (last'.op = "create" /\ last'.kind = "ok")
          => /\ (p = last'.req.project_name
                 /\ SplitPath(q) = SplitPath(last'.req.folder_path))
                => Listed(v, db', p, q, last'.id)
             /\ Listed(v, db', p, q, last'.id)
                => (p = last'.req.project_name
                    /\ IsPrefix(SplitPath(q), SplitPath(last'.req.folder_path)))
       /\ (last'.op = "delete" /\ last'.kind = "ok")
          => ~Listed(v, db', p, q, last'.id)
       /\ \A k \in 1..Len(UuidPool) :
             UuidPool[k] # last'.id
             => (Listed(v, db', p, q, UuidPool[k]) <=> Listed(v, db, p, q, UuidPool[k]))]_vars

(***************************************************************************)
(* C13  Order of the listing.                                              *)
(***************************************************************************)
\* a >= b for two strings of digits of the same length
RECURSIVE DigitsGeq(_, _)
DigitsGeq(a, b) ==
  IF a = <<>> THEN TRUE
  ELSE IF Head(a) # Head(b) THEN Head(a) > Head(b)
  ELSE DigitsGeq(Tail(a), Tail(b))

\* ORDER BY e.registration_date DESC
SortedDesc(seq) ==
  \A i, j \in 1..Len(seq) :
     i < j => DigitsGeq(seq[i].props["registration_date"],
                        seq[j].props["registration_date"])

\* every arrangement of the rows, one place per row
Arrangements(rows) ==
  {f \in [1..Cardinality(rows) -> rows] :
      \A i, j \in 1..Cardinality(rows) : i # j => f[i] # f[j]}

\* the sequences a listing may return: src/main.py and src/main_gemini.py
\* sort the rows, the query of src/routers/notes.py has no ORDER BY and
\* leaves the order to the store
ListSequences(v, s, project, path) ==
  LET r == ListExperiments(v, s, project, path)
  IN  IF v = "router" THEN Arrangements(r.rows)
      ELSE {seq \in Arrangements(r.rows) : SortedDesc(seq)}

\* C13: every sequence a listing returns is in descending order of the
\* registration dates of its entries.
C13_ListOrder ==
  \A v \in ListVariants, p \in Projects, q \in QueryPaths :
     ListExperiments(v, db, p, q).kind = "ok"
     => \A seq \in ListSequences(v, db, p, q) : SortedDesc(seq)

(***************************************************************************)
(* Search handlers.                                                        *)
(***************************************************************************)
\* x CONTAINS q, on the character sequences of the two strings
Contains(x, q) ==
  \E i \in 1..Len(Chars(x)) :
     /\ i + Len(Chars(q)) - 1 <= Len(Chars(x))
     /\ SubSeq(Chars(x), i, i + Len(Chars(q)) - 1) = Chars(q)

\* search_experiments_by_substance of src/main.py and src/main_gemini.py:
\* MATCH (s:Substances) WHERE s.cas_rn = $cas_rn  MATCH (s)<-[:HAS_NODE]-(e:Experiment)
SearchMain(s, x) ==
  ListResult("ok",
     {e \in Experiments(s) :
         \E n \in NodesWith(s, "Substances", "cas_rn", x) :
            Rel(e.nid, "HAS_NODE", n.nid) \in s.rels})

\* list_or_search_experiments of src/routers/notes.py with q given:
\* MATCH (s:Substances)--(exp:Experiment)
\* WHERE s.`Node Name` CONTAINS $q OR s.`CAS RN` = $q
SearchRouter(s, x) ==
  ListResult("ok",
     {e \in Experiments(s) :
         \E n \in {m \in s.nodes : m.label = "Substances"} :
            /\ \E r \in s.rels : {r.src, r.dst} = {e.nid, n.nid}
            /\ \/ ("Node Name" \in DOMAIN n.props /\ Contains(n.props["Node Name"], x))
               \/ ("CAS RN" \in DOMAIN n.props /\ n.props["CAS RN"] = x)})

SearchExperiments(v, s, x) ==
  IF v = "router" THEN SearchRouter(s, x) ELSE SearchMain(s, x)

\* what a client may search for: the identifier of PropsAspirin, another
\* identifier, and a text that is no identifier of any node
SearchValues == {"50-78-2", "64-17-5", "aspirin"}

(***************************************************************************)
(* C14  Listing and search with nothing to return.                         *)
(***************************************************************************)
\* the experiments filed under a project
FiledUnder(s, project) ==
  {e \in Experiments(s) :
      IF impl = "main"
      THEN \E p \in ProjectsAbove(s, e.nid) : p.props["name"] = project
      ELSE e.props["project_name"] = project}

\* no FlowNode of the store carries the value in any property
NowhereStored(s, x) ==
  \A n \in FlowNodes(s) : \A k \in DOMAIN n.props : n.props[k] # x

\* C14: a listing for a project with no experiment filed under it returns
\* the empty sequence for every folder path, and a search for a value that
\* no FlowNode carries returns the empty sequence; neither ends in an error.
C14_EmptyNotError ==
  \A v \in ListVariants :
     /\ \A p \in Projects, q \in QueryPaths :
           FiledUnder(db, p) = {}
           => ListExperiments(v, db, p, q) = ListResult("ok", {})
     /\ \A x \in SearchValues :
           NowhereStored(db, x)
           => SearchExperiments(v, db, x) = ListResult("ok", {})

(***************************************************************************)
(* C15  Search by chemical identifier.                                     *)
(***************************************************************************)
\* the experiments that own a Substances FlowNode stored with the identifier
OwnersOfCas(s, x) ==
  {e \in Experiments(s) :
      \E n \in NodesWith(s, "Substances", "CAS RN", x) :
         Rel(e.nid, OwnType, n.nid) \in s.rels}

\* C15: a search returns exactly the experiments that own a Substances
\* FlowNode whose stored CAS identifier equals the value searched for.
C15_SearchByCas ==
  \A v \in ListVariants, x \in SearchValues :
     SearchExperiments(v, db, x) = ListResult("ok", OwnersOfCas(db, x))

(***************************************************************************)
(* C16  Bodies that do not validate.                                       *)
(***************************************************************************)
\* the request declares a FlowNode of no known category or without a name
Malformed(req) ==
  \E i \in 1..Len(req.nodes) :
     \/ req.nodes[i].category \notin {"Substances", "Processing", "Measurement", "Others"}
     \/ "Node Name" \notin DOMAIN req.nodes[i].properties

\* C16: a create or update whose request declares a FlowNode with a category
\* outside the four categories, or with properties that lack the name field,
\* ends with the validation error kind; no transaction is begun, and the
\* store is unchanged (so the node is stored under no category at all).
C16_RejectsMalformed ==
  [][(last'.op \in {"create", "update"} /\ Malformed(last'.req))
     => /\ last'.kind = "Invalid"
        /\ last'.tx.begun = 0
        /\ db' = db]_vars

\* an update of an existing experiment was rejected for an unknown category
C16_Witness ==
  /\ last.op = "update" /\ last.kind = "Invalid"
  /\ ExperimentExists(db, last.id)
  /\ \E i \in 1..Len(last.req.nodes) : last.req.nodes[i].category \notin Categories

(***************************************************************************)
(* C17  Update sets the attributes of the experiment.                      *)
(***************************************************************************)
\* C17: after a successful update that declares FlowNodes, get of the id
\* returns the experiment name, the registrant and the registration date of
\* the update request under the same id, and the update neither adds nor
\* removes an Experiment node.
C17_UpdateSetsAttributes ==
  [][(last'.op = "update" /\ last'.kind = "ok" /\ last'.req.nodes # <<>>)
     => /\ GetNote(db', last'.id).kind = "ok"
        /\ GetNote(db', last'.id).attrs =
             Attrs(last'.id, last'.req.experiment_name, last'.req.registrant,
                   IsoFormat(last'.req.registration_date))
        /\ {e.props["id"] : e \in Experiments(db')} = {e.props["id"] : e \in Experiments(db)}
        /\ Cardinality(Experiments(db')) = Cardinality(Experiments(db))]_vars

(***************************************************************************)
(* C18  Frame of the folder upsert.                                        *)
(***************************************************************************)
\* the Project named by the request and the Folders met by following the
\* segments of its path from that Project, one after the other
Chain(s, req) ==
  LET parts == SplitPath(req.folder_path)
      top   == Nids(NodesWith(s, "Project", "name", req.project_name))
  IN  UNION {Walk(s, top, SubSeq(parts, 1, k), 1) : k \in 0..Len(parts)}

\* internal ids of the Folders with a CONTAINS path from a node of front
RECURSIVE Below(_, _, _)
Below(s, front, seen) ==
  LET down == {r.dst : r \in {x \in Hierarchy(s).rels : x.src \in front}} \ seen
  IN  IF down = {} THEN seen ELSE Below(s, down, seen \cup down)

\* the Project of that name, the Folders below it and the containment
\* edges that leave them towards Folders
SubtreeOf(s, project) ==
  LET top == Nids(NodesWith(s, "Project", "name", project))
      N   == top \cup Below(s, top, {})
  IN  [nodes |-> {n \in s.nodes : n.nid \in N},
       rels  |-> {r \in Hierarchy(s).rels : r.src \in N}]

\* C18: a successful create adds Folder nodes and containment edges between
\* Projects and Folders only on the chain from its Project along the
\* segments of its path; the subtree of every other Project stays as it
\* was; and every Folder has exactly one incoming containment edge.
C18_FolderFrame ==
  [][(last'.op = "create" /\ last'.kind = "ok")
     => LET C == Chain(db', last'.req)
        IN  /\ Nids(Hierarchy(db').nodes \ Hierarchy(db).nodes) \subseteq C
            /\ \A r \in Hierarchy(db').rels \ Hierarchy(db).rels :
                  r.src \in C /\ r.dst \in C
            /\ \A p \in Projects \ {last'.req.project_name} :
                  SubtreeOf(db', p) = SubtreeOf(db, p)
            /\ \A f \in {n \in db'.nodes : n.label = "Folder"} :
                  Cardinality({r \in db'.rels : r.type = "CONTAINS" /\ r.dst = f.nid}) = 1]_vars

(***************************************************************************)
(* C19  One transaction per write.                                         *)
(***************************************************************************)
\* C19: a create or update that reaches its handler and gets a transaction
\* from graph.begin() begins exactly one transaction, finishes it by a
\* commit or a rollback before it returns or raises, and makes no call on
\* the transaction after it is finished.
C19_OneTransaction ==
  (/\ last.op \in {"create", "update"}
   /\ last.kind # "Invalid"
   /\ ~(last.fail /\ last.tx.begun = 0))
  => /\ last.tx.begun = 1
     /\ last.tx.finish \in {"commit", "rollback"}
     /\ last.tx.late = 0

(***************************************************************************)
(* Concurrent creates.  create_note of src/main.py is a plain function, so *)
(* the framework serves requests on worker threads; each call has its own  *)
(* transaction on the shared graph.  A transaction reads the committed     *)
(* store and its own writes.  A MERGE of a relationship pattern locks the  *)
(* nodes it is bound to until the transaction ends; a MERGE of a node      *)
(* pattern locks nothing, and the code declares no uniqueness constraint.  *)
(***************************************************************************)
\* "/", "a", "a/b"
ConcurrentPaths == {<<"/">>, <<"a">>, <<"a", "/", "b">>}

ConcurrentRequests ==
  {Request("P1", fp, [experiment_name |-> "run1", registrant |-> "ann",
                      registration_date |-> <<2024, 1, 9>>],
           [nodes |-> <<>>, edges |-> <<>>]) : fp \in ConcurrentPaths}

\* the store after one earlier create under the root of P1
SeededStore ==
  LET stmts == MainCreateStmts(Request("P1", <<"/">>,
                                       [experiment_name |-> "run0", registrant |-> "ann",
                                        registration_date |-> <<2024, 1, 8>>],
                                       [nodes |-> <<>>, edges |-> <<>>]), UuidPool[1])
  IN  Commit(EmptyStore, RunStmts(Ctx(EmptyStore, <<>>), stmts, Len(stmts)).s)

\* what transaction i reads: the committed store and its own writes
View(i) ==
  [nodes |-> db.nodes \cup txs[i].own.nodes, rels |-> db.rels \cup txs[i].own.rels]

\* the store hands out internal ids above every id in use, committed or not
Allocated ==
  [nid   |-> MaxOf({0} \cup Nids(db.nodes)
                       \cup UNION {Nids(txs[j].own.nodes) : j \in 1..Clients}),
   label |-> "<allocated>", props |-> [allocated |-> "yes"]]

\* the nodes a statement binds before its MERGE of a relationship
BoundNodes(v, st) ==
  CASE st.op = "MergeFolder" -> Nids(NodesWith(v, st.plabel, "name", st.pname))
    [] st.op = "LinkParent"  -> Nids(NodesWith(v, st.plabel, "name", st.pname))
                                \cup Nids(NodesWith(v, "Experiment", "id", st.id))
    [] OTHER                 -> {}

LockedByOthers(i) == UNION {txs[j].locks : j \in (1..Clients) \ {i}}

\* tx = graph.begin()
BeginCreate(i) ==
  /\ txs[i].phase = "idle"
  /\ uuids < Len(UuidPool)
  /\ \E req \in ConcurrentRequests :
       txs' = [txs EXCEPT ![i] = Worker("open", req, UuidPool[uuids + 1], 0, EmptyStore, {})]
  /\ uuids' = uuids + 1
  /\ UNCHANGED <<impl, workload, db, nops, last>>

\* the next tx.run of create_note
RunStatement(i) ==
  /\ txs[i].phase = "open"
  /\ LET stmts == MainCreateStmts(txs[i].req, txs[i].u)
     IN  /\ txs[i].pc < Len(stmts)
         /\ LET st    == stmts[txs[i].pc + 1]
                v     == View(i)
                bound == BoundNodes(v, st)
                out   == Exec(Ctx([v EXCEPT !.nodes = @ \cup {Allocated}], <<>>), st).s
            IN  /\ bound \cap LockedByOthers(i) = {}
                /\ txs' = [txs EXCEPT ![i].pc = @ + 1,
                                      ![i].locks = @ \cup bound,
                                      ![i].own = [nodes |-> (out.nodes \ {Allocated}) \ db.nodes,
                                                  rels  |-> out.rels \ db.rels]]
  /\ UNCHANGED <<impl, workload, db, uuids, nops, last>>

\* tx.commit(): the writes become part of the committed store, the locks go
CommitCreate(i) ==
  /\ txs[i].phase = "open"
  /\ txs[i].pc = Len(MainCreateStmts(txs[i].req, txs[i].u))
  /\ db' = Commit(db, View(i))
  /\ txs' = [txs EXCEPT ![i] = Worker("done", @.req, @.u, @.pc, EmptyStore, {})]
  /\ last' = Response("create", "ok", txs[i].u, txs[i].req, FALSE, FALSE, FALSE,
                      Tx(1, "commit", 0))
  /\ nops' = nops + 1
  /\ UNCHANGED <<impl, workload, uuids>>

InitConcurrent ==
  /\ impl = "main"
  /\ workload = "filing"
  /\ \/ db = EmptyStore /\ uuids = 0
     \/ db = SeededStore /\ uuids = 1
  /\ nops = 0
  /\ last = Response("none", "ok", NoId, NoRequest, FALSE, FALSE, FALSE, NoTx)
  /\ txs = [i \in 1..Clients |-> Idle]

NextConcurrent ==
  \E i \in 1..Clients : BeginCreate(i) \/ RunStatement(i) \/ CommitCreate(i)

SpecConcurrent == InitConcurrent /\ [][NextConcurrent]_vars

(***************************************************************************)
(* C20  Concurrent creates under one new folder path.                      *)
(***************************************************************************)
\* C20: when two creates for the same project and the same folder path, of
\* which no Folder existed before, have both committed, the store holds
\* exactly one Project node of that name and exactly one Folder node for
\* each segment of the path.
C20_NoDuplicateFolders ==
  \A i, j \in 1..Clients :
     (/\ i # j
      /\ txs[i].phase = "done" /\ txs[j].phase = "done"
      /\ \A k \in 1..Clients : txs[k].phase # "idle" => txs[k].req = txs[i].req
      /\ SplitPath(txs[i].req.folder_path) # <<>>)
     => LET parts == SplitPath(txs[i].req.folder_path)
            top   == NodesWith(db, "Project", "name", txs[i].req.project_name)
        IN  /\ Cardinality(top) = 1
            /\ \A k \in 1..Len(parts) :
                  Cardinality(NodesWith(db, "Folder", "name", parts[k])) = 1

(***************************************************************************)
(* C21  Projects and Folders are never removed.                            *)
(***************************************************************************)
\* the Folders that contain no experiment any more
EmptyFolders(s) ==
  {f \in s.nodes : /\ f.label = "Folder"
                   /\ ~\E e \in Experiments(s) : Rel(f.nid, "CONTAINS", e.nid) \in s.rels}

\* C21: no create, update or delete, successful or failed, removes a Project
\* or a Folder node or a containment edge that enters one: every such node
\* and edge of the store before the call is in the store after the call,
\* also when the call deletes or updates the last experiment under it.
C21_HierarchyStays ==
  [][/\ Hierarchy(db).nodes \subseteq db'.nodes
     /\ Hierarchy(db).rels \subseteq db'.rels]_vars

\* a delete succeeded and left a Folder, still held by its parent, with no
\* experiment under it
C21_Witness ==
  /\ last.op = "delete" /\ last.kind = "ok"
  /\ \E f \in EmptyFolders(db) : \E r \in Hierarchy(db).rels : r.dst = f.nid

(***************************************************************************)
(* C22  Writes to one experiment leave the others alone.                   *)
(***************************************************************************)
\* C22: a create, update or delete addressed to an experiment B (last'.id:
\* the id in the path of an update or delete, the new id of a create) leaves what
\* get returns for every other stored experiment A (attributes, node ids,
\* categories, properties, edges) as it was before the call, also when B's
\* request declares FlowNode ids that A's FlowNodes use.
C22_WritesAreLocal ==
  [][\A a \in KnownIds :
       (ExperimentExists(db, a) /\ last'.id # a)
         => GetNote(db', a) = GetNote(db, a)]_vars

====
